---- MODULE Spec2Model ----
(***************************************************************************)
(* Model of pistomp/midi_to_http/midi_snapshot_plugin.py: the hot-plug     *)
(* monitor, the per-port listener threads and the MIDI message dispatch    *)
(* of MidiSnapshotPlugin.                                                  *)
(*                                                                         *)
(* Threads of the program: the initial scan (listen_to_all_midi_ports),    *)
(* the polling loop (monitor_midi_devices) and one listener per            *)
(* threading.Thread started by start_listening_to_port.  Every read or     *)
(* write of shared state (active_ports, running, a Thread's liveness, the  *)
(* enumeration get_input_names()) is a step of its own, so that the        *)
(* interleavings the unlocked code allows are all present.                 *)
(***************************************************************************)
EXTENDS Integers, Sequences, FiniteSets, TLC

\* Device names that get_input_names() may report.
Ports == {"portA", "portB"}

\* The devices that are plugged and unplugged while the plugin runs; the
\* others stay as they are when it starts (connected or absent).
HotPorts == {"portA"}

\* Number of threading.Thread objects for listeners that may exist at once.
MaxThreads == 2

Tids == 1..MaxThreads

VARIABLES
    present,       \* what get_input_names() returns now (the plugged devices)
    running,       \* self.running
    active_ports,  \* self.active_ports: dict port_name -> thread
    threads,       \* the listener Thread objects: port argument, state and
                   \* the messages waiting in the stream the thread reads
    call,          \* per calling thread: its frame of start_listening_to_port
    scan,          \* the thread running listen_to_all_midi_ports
    mon,           \* the thread running monitor_midi_devices
    snapshot_map,  \* self.snapshot_map: {'cc': {key: action}, 'pc': {...}}
    last,          \* what the latest handle_midi_message call did
    modapi,        \* the snapshot collaborator: current name and inventory
    loaded,        \* what the latest load_next/previous_snapshot call did
    sent,          \* how many messages the emitting device has sent
    dispatched     \* the collaborator calls made, as the numbers of the
                   \* messages they were made for, in the order of the calls

vars == <<present, running, active_ports, threads, call, scan, mon,
          snapshot_map, last, modapi, loaded, sent, dispatched>>

\* The configuration, the record of the dispatch, the snapshot collaborator
\* and the count and log of the messages, left alone by every step but the
\* handling of a message, the snapshot operations and the sending of a
\* message.
disp == <<snapshot_map, last, modapi, loaded, sent, dispatched>>

Callers == {"scan", "mon"}

----------------------------------------------------------------------------
\* Python dict operations on a function with a partial domain.

\* dict.get(k): the value wrapped in a sequence, <<>> for None.
DictGet(d, k) == IF k \in DOMAIN d THEN <<d[k]>> ELSE <<>>

\* dict.pop(k, None)
DictPop(d, k) == [x \in (DOMAIN d) \ {k} |-> d[x]]

\* d[k] = v
DictPut(d, k, v) == [x \in (DOMAIN d) \cup {k} |-> IF x = k THEN v ELSE d[x]]

----------------------------------------------------------------------------
\* Configurations: what self.config.get('midi', {}).get('snapshot', {})
\* yields for four midi_snapshot_plugin.yml files.  Keys and action strings
\* are written character by character.

\* cc: {"3:10": "load:5", "3:11": "next", "4:11": "load:abc", "1:0": "previous"}
\* pc: {"4:10": "previous", "3:11": "load:-1", "4:11": "load:5:7",
\*      "16:127": "next"}
ConfigA ==
    ("cc" :> (   <<"3", ":", "1", "0">> :> <<"l", "o", "a", "d", ":", "5">>
              @@ <<"3", ":", "1", "1">> :> <<"n", "e", "x", "t">>
              @@ <<"4", ":", "1", "1">>
                     :> <<"l", "o", "a", "d", ":", "a", "b", "c">>
              @@ <<"1", ":", "0">>
                     :> <<"p", "r", "e", "v", "i", "o", "u", "s">>))
    @@
    ("pc" :> (   <<"4", ":", "1", "0">>
                     :> <<"p", "r", "e", "v", "i", "o", "u", "s">>
              @@ <<"3", ":", "1", "1">>
                     :> <<"l", "o", "a", "d", ":", "-", "1">>
              @@ <<"4", ":", "1", "1">>
                     :> <<"l", "o", "a", "d", ":", "5", ":", "7">>
              @@ <<"1", "6", ":", "1", "2", "7">> :> <<"n", "e", "x", "t">>))

\* Only a cc section:
\* cc: {"3:10": "previous", "4:10": "load:", "3:11": "", "4:11": "load: 7",
\*      "16:127": "load:12"}
ConfigB ==
    ("cc" :> (   <<"3", ":", "1", "0">>
                     :> <<"p", "r", "e", "v", "i", "o", "u", "s">>
              @@ <<"4", ":", "1", "0">> :> <<"l", "o", "a", "d", ":">>
              @@ <<"3", ":", "1", "1">> :> <<>>
              @@ <<"4", ":", "1", "1">>
                     :> <<"l", "o", "a", "d", ":", " ", "7">>
              @@ <<"1", "6", ":", "1", "2", "7">>
                     :> <<"l", "o", "a", "d", ":", "1", "2">>))

\* No configuration file (load_config returns {}), or no snapshot section.
ConfigC == << >>

\* Keys and actions in other spellings:
\* cc: {"03:10": "next", "3:10": "Next", "4:10": "loadx:1", "4:11": "load:+3"}
\* pc: {"3:10": "next", "1:0": "load:0", "2:10": "previous"}
ConfigD ==
    ("cc" :> (   <<"0", "3", ":", "1", "0">> :> <<"n", "e", "x", "t">>
              @@ <<"3", ":", "1", "0">> :> <<"N", "e", "x", "t">>
              @@ <<"4", ":", "1", "0">>
                     :> <<"l", "o", "a", "d", "x", ":", "1">>
              @@ <<"4", ":", "1", "1">>
                     :> <<"l", "o", "a", "d", ":", "+", "3">>))
    @@
    ("pc" :> (   <<"3", ":", "1", "0">> :> <<"n", "e", "x", "t">>
              @@ <<"1", ":", "0">> :> <<"l", "o", "a", "d", ":", "0">>
              @@ <<"2", ":", "1", "0">>
                     :> <<"p", "r", "e", "v", "i", "o", "u", "s">>))

Configs == {ConfigA, ConfigB, ConfigC, ConfigD}

\* Decoded messages: msg.type, msg.channel (0-15 on the wire) and
\* msg.control or msg.program (0-127).
MsgTypes == {"control_change", "program_change", "note_on"}

Channels == {0, 2, 3, 15}

Numbers == {0, 10, 11, 127}

Msgs == [type : MsgTypes, channel : Channels, number : Numbers]

\* The messages the devices of the system model send: control changes
\* bound to "load:5" and to "load:abc" under ConfigA.
PortMsgs == {[type |-> "control_change", channel |-> 2, number |-> 10],
             [type |-> "control_change", channel |-> 3, number |-> 11]}

----------------------------------------------------------------------------
\* Listener Thread objects.

FreeThread == [port |-> "", st |-> "free", inbox |-> <<>>]

\* Thread.is_alive(): from start() until run() (listen_to_port) has returned.
IsAlive(t) == threads[t].st \in {"started", "reading", "stale"}

\* Thread objects referenced by dict ap or by a local variable of frames cl.
Referenced(ap, cl) ==
    {ap[p] : p \in DOMAIN ap}
        \cup {cl[c].thread[1] : c \in {x \in Callers : cl[x].thread # <<>>}}

\* A Thread object that has exited and is referenced nowhere is garbage:
\* its identity is given back.
Collect(th, ap, cl) ==
    [t \in Tids |-> IF th[t].st = "exited" /\ t \notin Referenced(ap, cl)
                    THEN FreeThread ELSE th[t]]

NoCall == [pc |-> "idle", port |-> "", thread |-> <<>>]

\* The snapshot collaborator with an empty inventory: get_snapshot_list()
\* returns {} and get_current_snapshot_name() a name of no snapshot.
NoSnapshots == [current_name |-> "", snapshot_list |-> <<>>]

Init ==
    /\ present \in SUBSET Ports
    /\ running = FALSE
    /\ active_ports = << >>
    /\ threads = [t \in Tids |-> FreeThread]
    /\ call = [c \in Callers |-> NoCall]
    /\ scan = [pc |-> "init", input_names |-> {}]
    /\ mon = [pc |-> "init", previous_ports |-> {}, current_ports |-> {},
              new_ports |-> {}, removed_ports |-> {}]
    /\ snapshot_map = ConfigA
    /\ last = <<>>
    /\ modapi = NoSnapshots
    /\ loaded = <<>>
    /\ sent = 0
    /\ dispatched = <<>>

----------------------------------------------------------------------------
\* The devices (the environment behind get_input_names and open_input).

Plug(p) ==
    /\ p \notin present
    /\ present' = present \cup {p}
    /\ UNCHANGED <<disp, running, active_ports, threads, call, scan, mon>>

\* Unplugging invalidates the streams open on the device: their readers
\* get no further message (they may get an error, see ReadError), and what
\* was waiting in the streams is lost.
Unplug(p) ==
    /\ p \in present
    /\ present' = present \ {p}
    /\ threads' = [t \in Tids |->
                     IF threads[t].port = p /\ threads[t].st = "reading"
                     THEN [threads[t] EXCEPT !.st = "stale", !.inbox = <<>>]
                     ELSE threads[t]]
    /\ UNCHANGED <<disp, running, active_ports, call, scan, mon>>

----------------------------------------------------------------------------
\* start(): sets the flag and starts the two daemon threads.

Start ==
    /\ scan.pc = "init" /\ mon.pc = "init"
    /\ running' = TRUE
    /\ scan' = [scan EXCEPT !.pc = "enum"]
    /\ mon' = [mon EXCEPT !.pc = "prev"]
    /\ UNCHANGED <<disp, present, active_ports, threads, call>>

----------------------------------------------------------------------------
\* start_listening_to_port(port_name), executed by caller c.

\* Mutation of AlreadyListening: the liveness check is lost and every call
\* starts a listener.
AlreadyListeningNever(thread) == thread # thread

\* Mutation of AlreadyListening: any entry counts, its liveness is not
\* looked at.
AlreadyListeningAnyEntry(thread) == thread # <<>>

\* Line 63: thread and thread.is_alive()
AlreadyListening(thread) == thread # <<>> /\ IsAlive(thread[1])

\* The call self.start_listening_to_port(port) made by c, up to and
\* including line 62: thread = self.active_ports.get(port_name)
Enter(c, port) ==
    [call EXCEPT ![c] = [pc |-> "alive", port |-> port,
                         thread |-> DictGet(active_ports, port)]]

\* The caller's loop after the call has returned: the for statement ends
\* when its set is exhausted.
Returned(c) ==
    /\ scan' = IF c = "scan" /\ scan.input_names = {}
               THEN [scan EXCEPT !.pc = "done"] ELSE scan
    /\ mon' = IF c = "mon" /\ mon.new_ports = {}
              THEN [mon EXCEPT !.pc = "removed"] ELSE mon

\* Lines 63-64: if thread and thread.is_alive(): return
SlAlive(c) ==
    /\ call[c].pc = "alive"
    /\ IF AlreadyListening(call[c].thread)
       THEN /\ call' = [call EXCEPT ![c] = NoCall]
            /\ Returned(c)
       ELSE /\ call' = [call EXCEPT ![c].pc = "pop", ![c].thread = <<>>]
            /\ UNCHANGED <<scan, mon>>
    /\ threads' = Collect(threads, active_ports, call')
    /\ UNCHANGED <<disp, present, running, active_ports>>

\* Line 65: self.active_ports.pop(port_name, None)
\* Lines 66-67: thread = threading.Thread(target=self.listen_to_port, ...);
\* thread.start()
SlPop(c) ==
    /\ call[c].pc = "pop"
    /\ active_ports' = DictPop(active_ports, call[c].port)
    /\ LET th == Collect(threads, active_ports', call)
           free == {t \in Tids : th[t].st = "free"}
       IN /\ free # {}
          /\ LET t == CHOOSE x \in free : \A y \in free : x <= y
             IN /\ threads' = [th EXCEPT ![t] = [port |-> call[c].port,
                                                 st |-> "started",
                                                 inbox |-> <<>>]]
                /\ call' = [call EXCEPT ![c].thread = <<t>>, ![c].pc = "put"]
    /\ UNCHANGED <<disp, present, running, scan, mon>>

\* Line 68: self.active_ports[port_name] = thread
SlPut(c) ==
    /\ call[c].pc = "put"
    /\ active_ports' = DictPut(active_ports, call[c].port, call[c].thread[1])
    /\ call' = [call EXCEPT ![c] = NoCall]
    /\ threads' = Collect(threads, active_ports', call')
    /\ Returned(c)
    /\ UNCHANGED <<disp, present, running>>

----------------------------------------------------------------------------
\* listen_to_all_midi_ports(): the initial scan.

\* Line 55: input_names = set(get_input_names())
ScanEnum ==
    /\ scan.pc = "enum"
    /\ scan' = [scan EXCEPT !.pc = IF present = {} THEN "done" ELSE "loop",
                            !.input_names = present]
    /\ UNCHANGED <<disp, present, running, active_ports, threads, call, mon>>

\* Lines 58-59: for port_name in input_names: self.start_listening_to_port(..)
\* (the next port is taken and the call made, up to its line 62).
ScanLoop ==
    /\ scan.pc = "loop"
    /\ call["scan"].pc = "idle"
    /\ \E p \in scan.input_names :
          /\ scan' = [scan EXCEPT !.input_names = @ \ {p}]
          /\ call' = Enter("scan", p)
    /\ UNCHANGED <<disp, present, running, active_ports, threads, mon>>

----------------------------------------------------------------------------
\* monitor_midi_devices(): the polling loop.

\* Mutation of NewPorts: every enumerated port counts as new.
NewPortsAll(current, previous) == current

\* Line 78: new_ports = current_ports - previous_ports
NewPorts(current, previous) == current \ previous

\* Line 79: removed_ports = previous_ports - current_ports
RemovedPorts(current, previous) == previous \ current

\* Line 73: previous_ports = set(get_input_names())
MonPrev ==
    /\ mon.pc = "prev"
    /\ mon' = [mon EXCEPT !.pc = "while", !.previous_ports = present]
    /\ UNCHANGED <<disp, present, running, active_ports, threads, call, scan>>

\* Line 74: while self.running
MonWhile ==
    /\ mon.pc = "while"
    /\ mon' = [mon EXCEPT !.pc = IF running THEN "enum" ELSE "done"]
    /\ UNCHANGED <<disp, present, running, active_ports, threads, call, scan>>

\* Lines 75-79: current_ports = set(get_input_names()) and the two differences
MonEnum ==
    /\ mon.pc = "enum"
    /\ mon' = [mon EXCEPT !.pc = IF NewPorts(present, mon.previous_ports) = {}
                                 THEN "removed" ELSE "new",
                          !.current_ports = present,
                          !.new_ports = NewPorts(present, mon.previous_ports),
                          !.removed_ports =
                              RemovedPorts(present, mon.previous_ports)]
    /\ UNCHANGED <<disp, present, running, active_ports, threads, call, scan>>

\* Lines 81-83: for port in new_ports: self.start_listening_to_port(port)
\* (the next port is taken and the call made, up to its line 62).
MonNew ==
    /\ mon.pc = "new"
    /\ call["mon"].pc = "idle"
    /\ \E p \in mon.new_ports :
          /\ mon' = [mon EXCEPT !.new_ports = @ \ {p}]
          /\ call' = Enter("mon", p)
    /\ UNCHANGED <<disp, present, running, active_ports, threads, scan>>

\* Mutation of MonRemoved: the listeners of the removed port are ended with
\* the removal of its entry.
MonRemovedStopsListener ==
    /\ mon.pc = "removed"
    /\ \E p \in mon.removed_ports :
          /\ mon' = [mon EXCEPT !.removed_ports = @ \ {p}]
          /\ active_ports' = DictPop(active_ports, p)
          /\ threads' = Collect([t \in Tids |->
                                   IF threads[t].port = p /\ IsAlive(t)
                                   THEN [threads[t] EXCEPT !.st = "exited",
                                                           !.inbox = <<>>]
                                   ELSE threads[t]],
                                active_ports', call)
    /\ UNCHANGED <<disp, present, running, call, scan>>

\* Lines 85-87: for port in removed_ports: self.active_ports.pop(port, None)
MonRemoved ==
    /\ mon.pc = "removed"
    /\ \E p \in mon.removed_ports :
          /\ mon' = [mon EXCEPT !.removed_ports = @ \ {p}]
          /\ active_ports' = DictPop(active_ports, p)
    /\ threads' = Collect(threads, active_ports', call)
    /\ UNCHANGED <<disp, present, running, call, scan>>

\* Lines 89-90: previous_ports = current_ports; time.sleep(interval)
MonSleep ==
    /\ mon.pc = "removed"
    /\ mon.removed_ports = {}
    /\ mon' = [mon EXCEPT !.pc = "while",
                          !.previous_ports = mon.current_ports,
                          !.current_ports = {}]
    /\ UNCHANGED <<disp, present, running, active_ports, threads, call, scan>>

----------------------------------------------------------------------------
\* Strings are sequences of one-character strings, so that formatting,
\* splitting and parsing are computed as Python computes them.

Digits == <<"0", "1", "2", "3", "4", "5", "6", "7", "8", "9">>

DigitSet == {Digits[i] : i \in 1..Len(Digits)}

DigitValue(ch) == (CHOOSE i \in 1..Len(Digits) : Digits[i] = ch) - 1

\* str(n) as the f-string of lines 109 and 113 formats a non-negative int.
RECURSIVE IntToStr(_)
IntToStr(n) ==
    IF n < Len(Digits) THEN <<Digits[n + 1]>>
    ELSE IntToStr(n \div Len(Digits)) \o <<Digits[(n % Len(Digits)) + 1]>>

\* Lines 109, 113: f"{chan}:{cc}"
Key(chan, number) == IntToStr(chan) \o <<":">> \o IntToStr(number)

\* str.startswith(prefix)
StartsWith(s, prefix) ==
    Len(s) >= Len(prefix) /\ SubSeq(s, 1, Len(prefix)) = prefix

\* str.split(sep) for a one-character separator: the list of the parts.
RECURSIVE Split(_, _)
Split(s, sep) ==
    IF \A i \in 1..Len(s) : s[i] # sep THEN <<s>>
    ELSE LET i == CHOOSE k \in 1..Len(s) :
                      s[k] = sep /\ \A j \in 1..(k - 1) : s[j] # sep
         IN <<SubSeq(s, 1, i - 1)>> \o Split(SubSeq(s, i + 1, Len(s)), sep)

\* str.strip() of blanks.
RECURSIVE Strip(_)
Strip(s) ==
    IF s = <<>> THEN s
    ELSE IF Head(s) = " " THEN Strip(Tail(s))
    ELSE IF s[Len(s)] = " " THEN Strip(SubSeq(s, 1, Len(s) - 1))
    ELSE s

RECURSIVE DigitsValue(_)
DigitsValue(s) ==
    IF s = <<>> THEN 0
    ELSE DigitsValue(SubSeq(s, 1, Len(s) - 1)) * Len(Digits)
             + DigitValue(s[Len(s)])

\* int(s) for a str over digits, signs, blanks, letters and punctuation:
\* surrounding blanks are dropped, one sign is allowed, and anything but a
\* non-empty run of decimal digits raises ValueError (ok = FALSE).
PyInt(s) ==
    LET t == Strip(s)
        signed == t # <<>> /\ Head(t) \in {"+", "-"}
        body == IF signed THEN Tail(t) ELSE t
        value == DigitsValue(body)
    IN IF body # <<>> /\ \A i \in 1..Len(body) : body[i] \in DigitSet
       THEN [ok |-> TRUE,
             val |-> IF signed /\ Head(t) = "-" THEN 0 - value ELSE value]
       ELSE [ok |-> FALSE, val |-> 0]

----------------------------------------------------------------------------
\* handle_midi_message(msg).  A message is [type, channel, number], number
\* being msg.control of a control_change and msg.program of a
\* program_change.

\* dict.get(k, {}) on the configuration.
SubMap(map, k) == IF k \in DOMAIN map THEN map[k] ELSE << >>

\* Mutation of Lookup: the key is built from the wire channel, without the
\* + 1 of lines 107 and 111.
LookupWireChannel(map, msg) ==
    IF msg.type = "control_change"
    THEN DictGet(SubMap(map, "cc"), Key(msg.channel, msg.number))
    ELSE IF msg.type = "program_change"
    THEN DictGet(SubMap(map, "pc"), Key(msg.channel, msg.number))
    ELSE <<>>

\* Lines 106-115: the looked-up action as <<action>>, <<>> for None; a
\* message of another type returns before any lookup.
Lookup(map, msg) ==
    IF msg.type = "control_change"
    THEN DictGet(SubMap(map, "cc"), Key(msg.channel + 1, msg.number))
    ELSE IF msg.type = "program_change"
    THEN DictGet(SubMap(map, "pc"), Key(msg.channel + 1, msg.number))
    ELSE <<>>

\* A call of the handler (the preset collaborator).
HandlerCall(op, args) == [op |-> op, args |-> args]

\* Mutation of LoadIndex: the wrong part of the split is parsed.
LoadIndexFirstPart(action) == PyInt(Split(action, ":")[1])

\* Line 126: int(action.split(":")[1])
LoadIndex(action) == PyInt(Split(action, ":")[2])

\* Lines 121-127, the body of the try: the collaborator calls made, and
\* whether an exception left the body (int() raised ValueError, or the
\* collaborator raised, which is the input `raises`).
TryBody(action, raises) ==
    IF action = <<"n", "e", "x", "t">>
    THEN [calls |-> <<HandlerCall("preset_incr_and_change", <<>>)>>,
          exc |-> raises]
    ELSE IF action = <<"p", "r", "e", "v", "i", "o", "u", "s">>
    THEN [calls |-> <<HandlerCall("preset_decr_and_change", <<>>)>>,
          exc |-> raises]
    ELSE IF StartsWith(action, <<"l", "o", "a", "d", ":">>)
    THEN LET index == LoadIndex(action)
         IN IF index.ok
            THEN [calls |-> <<HandlerCall("preset_set_and_change",
                                          <<index.val>>)>>,
                  exc |-> raises]
            ELSE [calls |-> <<>>, exc |-> TRUE]
    ELSE [calls |-> <<>>, exc |-> FALSE]

\* Mutation of Except: the exception is not caught and leaves
\* handle_midi_message.
ExceptPropagates(exc) == [error |-> FALSE, raised |-> exc]

\* Lines 128-129: except Exception: the exception is logged (error) and
\* does not leave handle_midi_message (raised).
Except(exc) == [error |-> exc, raised |-> FALSE]

\* Lines 105-129: what handling msg does.
HandleMidiMessage(map, msg, raises) ==
    LET found == Lookup(map, msg)
    IN IF found = <<>> \/ found[1] = <<>>      \* line 117: if not action
       THEN [msg |-> msg, calls |-> <<>>, error |-> FALSE, raised |-> FALSE]
       ELSE LET body == TryBody(found[1], raises)
            IN [msg |-> msg, calls |-> body.calls] @@ Except(body.exc)

----------------------------------------------------------------------------
\* listen_to_port(port_name), executed by listener thread t.

\* Mutation of Exit: the failure is not contained and ends every listener.
ExitEveryListener(t) ==
    Collect([u \in Tids |-> IF threads[u].st \in {"started", "reading", "stale"}
                            THEN [threads[u] EXCEPT !.st = "exited",
                                                    !.inbox = <<>>]
                            ELSE threads[u]],
            active_ports, call)

\* listen_to_port has returned: the thread is no longer alive.
Exit(t) ==
    Collect([threads EXCEPT ![t].st = "exited", ![t].inbox = <<>>],
            active_ports, call)

\* Line 94: open_input(port_name) succeeds; only a plugged device opens.
OpenOk(t) ==
    /\ threads[t].st = "started"
    /\ threads[t].port \in present
    /\ threads' = [threads EXCEPT ![t].st = "reading"]
    /\ UNCHANGED <<disp, present, running, active_ports, call, scan, mon>>

\* Lines 94, 100-103: open_input raises; the exception is caught and logged
\* and listen_to_port returns.
OpenFail(t) ==
    /\ threads[t].st = "started"
    /\ threads' = Exit(t)
    /\ UNCHANGED <<disp, present, running, active_ports, call, scan, mon>>

\* Lines 96, 100-103: the iteration over inport raises or ends (stream
\* error or stream closed); listen_to_port returns.
ReadError(t) ==
    /\ threads[t].st \in {"reading", "stale"}
    /\ threads' = Exit(t)
    /\ UNCHANGED <<disp, present, running, active_ports, call, scan, mon>>

\* Mutation of Receive: handling a message drops the configuration.
ReceiveClearsMap(t, msg, raises) ==
    /\ threads[t].st = "reading"
    /\ IF ~running
       THEN /\ threads' = Exit(t)
            /\ last' = last
            /\ snapshot_map' = snapshot_map
       ELSE LET done == HandleMidiMessage(snapshot_map, msg, raises)
            IN /\ last' = <<done>>
               /\ threads' = IF done.raised THEN Exit(t) ELSE threads
               /\ snapshot_map' = << >>
    /\ UNCHANGED <<modapi, loaded, sent, dispatched, present, running,
                   active_ports, call, scan, mon>>

\* Lines 96-99: a message arrives.  With self.running false the loop is
\* left (break); otherwise the message is handled, and an exception leaving
\* handle_midi_message is caught at line 100 and ends listen_to_port.
Receive(t, msg, raises) ==
    /\ threads[t].st = "reading"
    /\ IF ~running
       THEN /\ threads' = Exit(t)
            /\ last' = last
       ELSE LET done == HandleMidiMessage(snapshot_map, msg, raises)
            IN /\ last' = <<done>>
               /\ threads' = IF done.raised THEN Exit(t) ELSE threads
    /\ UNCHANGED <<snapshot_map, modapi, loaded, sent, dispatched, present,
                   running, active_ports, call, scan, mon>>

\* self.running is cleared by the host (the attribute is the stop signal the
\* loops at lines 74 and 97 poll).
Shutdown ==
    /\ running
    /\ running' = FALSE
    /\ UNCHANGED <<disp, present, active_ports, threads, call, scan, mon>>

----------------------------------------------------------------------------
\* Steps of the devices, over the ports P.
Env(P) ==
    \/ \E p \in P : Plug(p)
    \/ \E p \in P : Unplug(p)

\* Steps of the monitor thread.
MonitorStep ==
    \/ MonPrev
    \/ MonWhile
    \/ MonEnum
    \/ MonNew
    \/ MonRemoved
    \/ MonSleep
    \/ SlAlive("mon")
    \/ SlPop("mon")
    \/ SlPut("mon")

\* Steps of the initial scan thread.
ScanStep ==
    \/ ScanEnum
    \/ ScanLoop
    \/ SlAlive("scan")
    \/ SlPop("scan")
    \/ SlPut("scan")

\* Steps of the listener threads.
ListenerStep ==
    \/ \E t \in Tids : OpenOk(t)
    \/ \E t \in Tids : OpenFail(t)
    \/ \E t \in Tids : ReadError(t)
    \/ \E t \in Tids, msg \in PortMsgs, raises \in BOOLEAN :
          Receive(t, msg, raises)

Next ==
    \/ Start
    \/ Env(HotPorts)
    \/ MonitorStep
    \/ ScanStep
    \/ ListenerStep

\* The plugin as the repository runs it: nothing clears self.running.
Spec == Init /\ [][Next]_vars

\* The threads are scheduled: the monitor and the scan are daemon threads
\* of the interpreter and each gets to run when it can.  Nothing is assumed
\* of the devices, nor of the streams (a blocked read may last forever).
FairSpec == Spec /\ WF_vars(MonitorStep) /\ WF_vars(ScanStep)

\* The plugin with a host that clears self.running at some point.
NextStop == Next \/ Shutdown

StopSpec == Init /\ [][NextStop]_vars

\* The steps a started listener takes without any input: its open_input.
ListenerOpens == \E t \in Tids : OpenOk(t) \/ OpenFail(t)

\* The plugin with such a host, its threads being scheduled: the monitor,
\* the scan and a started listener each get to run when they can.  A
\* listener in its read only moves when its device delivers a message or
\* its stream fails, and nothing is assumed of the devices.
FairStopSpec ==
    /\ StopSpec
    /\ WF_vars(MonitorStep)
    /\ WF_vars(ScanStep)
    /\ WF_vars(ListenerOpens)

----------------------------------------------------------------------------
\* The plugin with the messages of a device followed from the device to the
\* dispatch.  The device numbers the messages it sends 1, 2, ...; each is
\* the control change bound to "load:5".  A message goes to every stream
\* that is open on the device when it is sent, and a listener takes the
\* messages of its stream in the order they came.

\* Number of messages the device sends.
MaxSent == 2

\* The device that sends messages.
Emitters == HotPorts

\* Device p sends its next message.
Emit(p) ==
    /\ p \in present
    /\ sent < MaxSent
    /\ sent' = sent + 1
    /\ threads' = [t \in Tids |->
                     IF threads[t].port = p /\ threads[t].st = "reading"
                     THEN [threads[t] EXCEPT !.inbox = Append(@, sent + 1)]
                     ELSE threads[t]]
    /\ UNCHANGED <<snapshot_map, last, modapi, loaded, dispatched, present,
                   running, active_ports, call, scan, mon>>

\* Lines 96-99 for the next message of the stream of listener t: break with
\* self.running false, handle_midi_message otherwise; a collaborator call
\* made for the message is logged under the message's number.
Deliver(t, raises) ==
    /\ threads[t].st = "reading"
    /\ threads[t].inbox # <<>>
    /\ IF ~running
       THEN /\ threads' = Exit(t)
            /\ UNCHANGED <<last, dispatched>>
       ELSE LET n == Head(threads[t].inbox)
                done == HandleMidiMessage(snapshot_map,
                                          [type |-> "control_change",
                                           channel |-> 2, number |-> 10],
                                          raises)
                rest == [threads EXCEPT ![t].inbox = Tail(@)]
            IN /\ last' = <<done>>
               /\ dispatched' = IF done.calls = <<>> THEN dispatched
                                ELSE Append(dispatched, n)
               /\ threads' = IF done.raised THEN Exit(t) ELSE rest
    /\ UNCHANGED <<snapshot_map, modapi, loaded, sent, present, running,
                   active_ports, call, scan, mon>>

\* Steps of the listener threads, their messages coming from the streams.
StreamListenerStep ==
    \/ \E t \in Tids : OpenOk(t)
    \/ \E t \in Tids : OpenFail(t)
    \/ \E t \in Tids : ReadError(t)
    \/ \E t \in Tids, raises \in BOOLEAN : Deliver(t, raises)

NextStream ==
    \/ Start
    \/ Env(HotPorts)
    \/ \E p \in Emitters : Emit(p)
    \/ MonitorStep
    \/ ScanStep
    \/ StreamListenerStep

StreamSpec == Init /\ [][NextStream]_vars

----------------------------------------------------------------------------
\* handle_midi_message on its own: the plugin in a steady state (portA
\* connected, its listener reading, the scan finished, the monitor between
\* two cycles), under each configuration, receiving every message of Msgs.

InitDispatch ==
    /\ present = {"portA"}
    /\ running = TRUE
    /\ active_ports = ("portA" :> 1)
    /\ threads = [t \in Tids |-> IF t = 1
                                 THEN [port |-> "portA", st |-> "reading",
                                       inbox |-> <<>>]
                                 ELSE FreeThread]
    /\ call = [c \in Callers |-> NoCall]
    /\ scan = [pc |-> "done", input_names |-> {}]
    /\ mon = [pc |-> "while", previous_ports |-> {"portA"},
              current_ports |-> {}, new_ports |-> {}, removed_ports |-> {}]
    /\ snapshot_map \in Configs
    /\ last = <<>>
    /\ modapi = NoSnapshots
    /\ loaded = <<>>
    /\ sent = 0
    /\ dispatched = <<>>

NextDispatch ==
    \E t \in Tids, msg \in Msgs, raises \in BOOLEAN : Receive(t, msg, raises)

DispatchSpec == InitDispatch /\ [][NextDispatch]_vars

----------------------------------------------------------------------------
\* load_next_snapshot() and load_previous_snapshot().  The inventory
\* get_snapshot_list() returns is a dict from index (a str of digits) to
\* name, modelled as the sequence of its <<key, name>> items in iteration
\* order; list positions are counted from 0 as Python counts them.

\* Largest number of snapshots of an inventory.
MaxSnapshots == 3

SnapshotKeys == {<<"0">>, <<"1">>, <<"2">>, <<"1", "0">>}

SnapshotNames == {"A", "B", "C"}

\* What get_current_snapshot_name() may return: the name of a snapshot, or
\* one no snapshot has.
CurrentNames == SnapshotNames \cup {"Z"}

\* The dicts of at most MaxSnapshots items: no key twice, names at will.
Inventories ==
    {sl \in UNION {[1..n -> SnapshotKeys \X SnapshotNames] : n \in 0..MaxSnapshots} :
        \A i, j \in 1..Len(sl) : sl[i][1] = sl[j][1] => i = j}

\* Lines 138, 149: names = list(snapshot_list.values())
Values(sl) == [i \in 1..Len(sl) |-> sl[i][2]]

\* Lines 139, 150: keys = list(snapshot_list.keys())
KeysOf(sl) == [i \in 1..Len(sl) |-> sl[i][1]]

\* Mutation of InNames: the membership test is lost.
InNamesAlways(name, names) == TRUE

\* Lines 140, 151: current_name in names
InNames(name, names) == \E i \in 1..Len(names) : names[i] = name

\* Lines 141, 152: names.index(current_name), the first position of the
\* name as <<idx>>; <<>> stands for the ValueError of a name not in the list.
ListIndex(names, name) ==
    IF \E i \in 1..Len(names) : names[i] = name
    THEN <<(CHOOSE i \in 1..Len(names) :
               names[i] = name /\ \A j \in 1..(i - 1) : names[j] # name) - 1>>
    ELSE <<>>

\* Mutation of NextIdx: no wrap at the end of the list.
NextIdxNoWrap(idx, n) == idx + 1

\* Line 142: (idx + 1) % len(names)
NextIdx(idx, n) == (idx + 1) % n

\* Line 153: (idx - 1 + len(names)) % len(names)
PrevIdx(idx, n) == (idx - 1 + n) % n

\* A call of self.load_snapshot(index), which calls modapi.load_snapshot.
LoadSnapshot(index) == [op |-> "load_snapshot", args |-> <<index>>]

\* What a call did: the operation, the current name it read, the calls of
\* load_snapshot it made and whether an exception left it.
Outcome(op, name, calls, raised) ==
    [op |-> op, current_name |-> name, calls |-> calls, raised |-> raised]

\* Lines 136-144 and 147-155, op being "next" or "previous".
LoadNeighbour(op, name, sl) ==
    LET names == Values(sl)
        keys == KeysOf(sl)
    IN IF ~InNames(name, names)
       THEN Outcome(op, name, <<>>, FALSE)
       ELSE LET found == ListIndex(names, name)
            IN IF found = <<>> \/ Len(names) = 0
               THEN Outcome(op, name, <<>>, TRUE)   \* ValueError, ZeroDivisionError
               ELSE LET idx == IF op = "next"
                               THEN NextIdx(found[1], Len(names))
                               ELSE PrevIdx(found[1], Len(names))
                    IN IF idx \notin 0..(Len(keys) - 1)
                       THEN Outcome(op, name, <<>>, TRUE)       \* IndexError
                       ELSE LET index == PyInt(keys[idx + 1])
                            IN IF index.ok
                               THEN Outcome(op, name,
                                            <<LoadSnapshot(index.val)>>, FALSE)
                               ELSE Outcome(op, name, <<>>, TRUE)

\* The collaborator after the calls: the snapshot loaded is the current one.
AfterLoad(m, calls) ==
    IF calls = <<>> THEN m
    ELSE LET hit == {i \in 1..Len(m.snapshot_list) :
                        PyInt(m.snapshot_list[i][1]).val = calls[1].args[1]}
         IN IF hit = {} THEN m
            ELSE [m EXCEPT !.current_name =
                               m.snapshot_list[CHOOSE i \in hit : TRUE][2]]

\* Lines 135-144: load_next_snapshot()
LoadNextSnapshot ==
    /\ LET done == LoadNeighbour("next", modapi.current_name,
                                 modapi.snapshot_list)
       IN /\ loaded' = <<done>>
          /\ modapi' = AfterLoad(modapi, done.calls)
    /\ UNCHANGED <<snapshot_map, last, sent, dispatched, present, running,
                   active_ports, threads, call, scan, mon>>

\* Lines 146-155: load_previous_snapshot()
LoadPreviousSnapshot ==
    /\ LET done == LoadNeighbour("previous", modapi.current_name,
                                 modapi.snapshot_list)
       IN /\ loaded' = <<done>>
          /\ modapi' = AfterLoad(modapi, done.calls)
    /\ UNCHANGED <<snapshot_map, last, sent, dispatched, present, running,
                   active_ports, threads, call, scan, mon>>

\* The two operations on their own, on a plugin just constructed, for every
\* inventory of Inventories and every current name.
InitSnapshot ==
    /\ present = {}
    /\ running = FALSE
    /\ active_ports = << >>
    /\ threads = [t \in Tids |-> FreeThread]
    /\ call = [c \in Callers |-> NoCall]
    /\ scan = [pc |-> "init", input_names |-> {}]
    /\ mon = [pc |-> "init", previous_ports |-> {}, current_ports |-> {},
              new_ports |-> {}, removed_ports |-> {}]
    /\ snapshot_map = ConfigA
    /\ last = <<>>
    /\ modapi \in [current_name : CurrentNames, snapshot_list : Inventories]
    /\ loaded = <<>>
    /\ sent = 0
    /\ dispatched = <<>>

NextSnapshot == LoadNextSnapshot \/ LoadPreviousSnapshot

SnapshotSpec == InitSnapshot /\ [][NextSnapshot]_vars

----------------------------------------------------------------------------
\* Properties.

\* The listeners of port p that are alive.
LiveListeners(p) == {t \in Tids : threads[t].port = p /\ IsAlive(t)}

\* The dict has an entry for p and the thread it names is alive.
LiveEntry(p) == p \in DOMAIN active_ports /\ IsAlive(active_ports[p])

\* The dict has an entry for p and the thread it names has exited.
DeadEntry(p) == p \in DOMAIN active_ports /\ ~IsAlive(active_ports[p])

\* C1: in every reachable state each device id has at most one live
\* listener (a listener thread started for it that has not exited).
C1_AtMostOneLiveListener ==
    \A p \in Ports : Cardinality(LiveListeners(p)) <= 1

\* C2: when a cycle of monitor_midi_devices completes (lines 89-90), the
\* dict holds a live entry for every device the cycle enumerated and no
\* entry for any other id; stated for the cycles that complete once the
\* initial scan has finished.
C2_CycleLeavesExactRegistry ==
    [][(mon.pc = "removed" /\ mon'.pc = "while" /\ scan.pc = "done")
          => /\ DOMAIN active_ports' = mon.current_ports
             /\ \A p \in mon.current_ports :
                   threads'[active_ports'[p]].st
                       \in {"started", "reading", "stale"}]_vars

\* Caller c is between the idempotence check of start_listening_to_port
\* (line 62) and its registration (line 68).
InCheckThenWrite(c) == call[c].pc # "idle"

\* C3: accesses to the dict are mutually exclusive: the scan and the
\* monitor are never both inside a check-then-write of the dict, and the
\* monitor removes no entry (line 87) while the scan is inside one.
C3_RegistryMutex ==
    /\ ~(InCheckThenWrite("scan") /\ InCheckThenWrite("mon"))
    /\ ~(InCheckThenWrite("scan") /\ mon.pc = "removed"
            /\ mon.removed_ports # {})

\* C4: a device whose listener has exited on a failure and that is
\* enumerable with no live entry in the dict eventually gets a listener
\* again (or stops being enumerable), the monitor being scheduled.
C4_FailedListenerRestarted ==
    \A p \in Ports :
        (p \in present /\ DeadEntry(p)) ~> (LiveEntry(p) \/ p \notin present)

\* C5: a listener whose listen_to_port has returned has no entry in the
\* dict: no entry names an exited thread.
C5_ExitedListenerUnregistered ==
    \A p \in Ports : ~DeadEntry(p)

\* The listeners of port p that are alive after the step.
LiveListenersAfter(p) ==
    {t \in Tids : threads'[t].port = p
                  /\ threads'[t].st \in {"started", "reading", "stale"}}

MsgLoad5 == [type |-> "control_change", channel |-> 2, number |-> 10]

MsgLoadAbc == [type |-> "control_change", channel |-> 3, number |-> 11]

\* C8: a failure while handling a message (the malformed action
\* "load:abc", or a collaborator call that raises) stays inside
\* handle_midi_message: no listener ends on the step, and a message handled
\* after a failure is dispatched as ever ("load:5" calls
\* preset_set_and_change(5), "load:abc" calls nothing and is logged).
C8_DispatchFailureContained ==
    [][last' # last
          => /\ threads' = threads
             /\ ~last'[1].raised
             /\ last'[1].msg = MsgLoad5
                   => last'[1].calls
                          = <<[op |-> "preset_set_and_change", args |-> <<5>>]>>
             /\ last'[1].msg = MsgLoadAbc
                   => last'[1].calls = <<>> /\ last'[1].error]_vars

\* Witness of C8: a message has failed in its dispatch and the listeners
\* reading then are still reading.
C8_Witness ==
    /\ last # <<>>
    /\ last[1].error
    /\ \E t \in Tids : threads[t].st = "reading"

----------------------------------------------------------------------------
\* Properties of the dispatch, read off the configuration directly.

\* The sub-mapping of the message's class: cc for a control change, pc for
\* a program change, nothing for another type.
ClassMap(map, msg) ==
    IF msg.type = "control_change" THEN SubMap(map, "cc")
    ELSE IF msg.type = "program_change" THEN SubMap(map, "pc")
    ELSE << >>

\* The sub-mapping of the message's class has a binding under the key
\* "<wire channel + 1>:<controller or program number>".
Bound(map, msg) == Key(msg.channel + 1, msg.number) \in DOMAIN ClassMap(map, msg)

BoundAction(map, msg) == ClassMap(map, msg)[Key(msg.channel + 1, msg.number)]

\* s is an integer literal: blanks, then an optional sign and one or more
\* decimal digits, then blanks.
IntegerText(s) ==
    LET inked == {k \in 1..Len(s) : s[k] # " "}
    IN /\ inked # {}
       /\ LET lo == CHOOSE k \in inked : \A j \in inked : k <= j
              hi == CHOOSE k \in inked : \A j \in inked : j <= k
              first == IF s[lo] \in {"+", "-"} THEN lo + 1 ELSE lo
          IN first <= hi /\ \A k \in first..hi : s[k] \in DigitSet

\* The text of a "load:..." action between its first colon and the next one
\* (or the end).
LoadText(a) ==
    LET rest == SubSeq(a, Len(<<"l", "o", "a", "d", ":">>) + 1, Len(a))
        colons == {k \in 1..Len(rest) : rest[k] = ":"}
    IN IF colons = {} THEN rest
       ELSE SubSeq(rest, 1, (CHOOSE k \in colons : \A j \in colons : k <= j) - 1)

\* The action strings that lead to a collaborator call.
Dispatchable(a) ==
    \/ a = <<"n", "e", "x", "t">>
    \/ a = <<"p", "r", "e", "v", "i", "o", "u", "s">>
    \/ /\ Len(a) >= Len(<<"l", "o", "a", "d", ":">>)
       /\ SubSeq(a, 1, Len(<<"l", "o", "a", "d", ":">>)) = <<"l", "o", "a", "d", ":">>
       /\ IntegerText(LoadText(a))

\* The example of the claim: under cc["3:10"] = "load:5" (ConfigA) a control
\* change on wire channel 2, controller 10, calls preset_set_and_change(5);
\* on wire channel 3, as a program change, or as another type, nothing.
C9_Example ==
    (snapshot_map = ConfigA /\ last[1].msg.number = 10)
    => /\ last[1].msg = [type |-> "control_change", channel |-> 2,
                         number |-> 10]
          => last[1].calls
                 = <<[op |-> "preset_set_and_change", args |-> <<5>>]>>
       /\ last[1].msg = [type |-> "control_change", channel |-> 3,
                         number |-> 10]
          => last[1].calls = <<>>
       /\ last[1].msg = [type |-> "program_change", channel |-> 2,
                         number |-> 10]
          => last[1].calls = <<>>
       /\ last[1].msg.type = "note_on" => last[1].calls = <<>>

\* C9 as stated: handle_midi_message makes a collaborator call if and only
\* if the message is a control change or a program change and the
\* sub-mapping of its class has a binding under "<wire channel + 1>:<number>".
C9_CallIffBound ==
    last # <<>>
    => /\ (last[1].calls # <<>>) <=> Bound(snapshot_map, last[1].msg)
       /\ C9_Example

\* C9 amended: handle_midi_message makes a collaborator call if and only if
\* the message is a control change or a program change and the sub-mapping
\* of its class has, under "<wire channel + 1>:<number>", a binding that is
\* "next", "previous" or "load:" followed by an integer literal (up to the
\* next colon, if any); a binding with another action string ("load:abc",
\* the empty string) causes no call.
C9_CallIffBoundDispatchable ==
    last # <<>>
    => /\ (last[1].calls # <<>>)
              <=> (/\ Bound(snapshot_map, last[1].msg)
                   /\ Dispatchable(BoundAction(snapshot_map, last[1].msg)))
       /\ C9_Example

\* Witness of C9: under ConfigA the control change on wire channel 2,
\* controller 10, has been handled and has called preset_set_and_change(5).
C9_Witness ==
    /\ snapshot_map = ConfigA
    /\ last # <<>>
    /\ last[1].msg = [type |-> "control_change", channel |-> 2, number |-> 10]
    /\ last[1].calls = <<[op |-> "preset_set_and_change", args |-> <<5>>]>>

\* The indexes n of the "load:<n>" actions looked at.
Indexes == 0..20

\* C10: a message bound to an action makes exactly one collaborator call,
\* the one the action names: "next" preset_incr_and_change(), "previous"
\* preset_decr_and_change(), "load:<n>" preset_set_and_change(n); no
\* handling calls anything but these three (no snapshot operation).
C10_ActionCallsItsCollaborator ==
    last # <<>>
    => /\ Len(last[1].calls) <= 1
       /\ \A i \in 1..Len(last[1].calls) :
             last[1].calls[i].op \in {"preset_incr_and_change",
                                      "preset_decr_and_change",
                                      "preset_set_and_change"}
       /\ Bound(snapshot_map, last[1].msg)
          => LET a == BoundAction(snapshot_map, last[1].msg)
             IN /\ a = <<"n", "e", "x", "t">>
                   => last[1].calls
                          = <<[op |-> "preset_incr_and_change", args |-> <<>>]>>
                /\ a = <<"p", "r", "e", "v", "i", "o", "u", "s">>
                   => last[1].calls
                          = <<[op |-> "preset_decr_and_change", args |-> <<>>]>>
                /\ \A n \in Indexes :
                      a = <<"l", "o", "a", "d", ":">> \o IntToStr(n)
                      => last[1].calls
                             = <<[op |-> "preset_set_and_change",
                                  args |-> <<n>>]>>

\* Witness of C10: a message bound to "load:12" has been handled and has
\* called preset_set_and_change(12).
C10_Witness ==
    /\ last # <<>>
    /\ Bound(snapshot_map, last[1].msg)
    /\ BoundAction(snapshot_map, last[1].msg)
           = <<"l", "o", "a", "d", ":", "1", "2">>
    /\ last[1].calls = <<[op |-> "preset_set_and_change", args |-> <<12>>]>>

\* a is "load:" followed by one or more decimal digits and nothing else.
LoadNonNegative(a) ==
    /\ StartsWith(a, <<"l", "o", "a", "d", ":">>)
    /\ Len(a) > Len(<<"l", "o", "a", "d", ":">>)
    /\ \A k \in (Len(<<"l", "o", "a", "d", ":">>) + 1)..Len(a) : a[k] \in DigitSet

\* C11: preset_set_and_change is only called with a non-negative index, and
\* a message bound to an action string that is not "next", "previous" or
\* "load:<non-negative integer>" ("load:-1", "load:5:7", "load:") makes no
\* collaborator call.
C11_LoadOnlyNonNegative ==
    last # <<>>
    => /\ \A i \in 1..Len(last[1].calls) :
             last[1].calls[i].op = "preset_set_and_change"
             => last[1].calls[i].args[1] >= 0
       /\ Bound(snapshot_map, last[1].msg)
          => LET a == BoundAction(snapshot_map, last[1].msg)
             IN (/\ a # <<"n", "e", "x", "t">>
                 /\ a # <<"p", "r", "e", "v", "i", "o", "u", "s">>
                 /\ ~LoadNonNegative(a))
                => last[1].calls = <<>>

----------------------------------------------------------------------------
\* Properties of the registry and of the monitor's cycle.

\* C16: no step of the scan, the monitor, the listeners, the dispatch or
\* the devices changes snapshot_map, so the lookup of every message gives
\* after the step what it gave before it.
C16_MappingReadOnly ==
    [][/\ snapshot_map' = snapshot_map
       /\ \A msg \in Msgs :
             Lookup(snapshot_map', msg) = Lookup(snapshot_map, msg)]_vars

\* Witness of C16: after a dispatch that failed, with a listener whose
\* device was unplugged, the control change of "load:5" is still bound to
\* "load:5".
C16_Witness ==
    /\ last # <<>>
    /\ last[1].error
    /\ \E t \in Tids : threads[t].st = "stale"
    /\ Lookup(snapshot_map, MsgLoad5) = <<(<<"l", "o", "a", "d", ":", "5">>)>>

\* The step is one of the monitor thread.
MonitorMoves == mon' # mon \/ call'["mon"] # call["mon"]

\* C17: the monitor takes previous_ports from its own enumeration before
\* the first cycle; in a cycle it calls start_listening_to_port for the ids
\* of current_ports - previous_ports, each once and no other, pops the
\* entries of the ids of previous_ports - current_ports and no other,
\* changes no entry of another id, and ends the cycle with previous_ports
\* = current_ports.
C17_MonitorCycle ==
    [][/\ (mon.pc = "prev" /\ mon' # mon) => mon'.previous_ports = present
       /\ (mon.pc = "enum" /\ mon' # mon)
          => /\ mon'.current_ports = present
             /\ mon'.previous_ports = mon.previous_ports
             /\ mon'.new_ports = present \ mon.previous_ports
             /\ mon'.removed_ports = mon.previous_ports \ present
             /\ active_ports' = active_ports
       /\ (call["mon"].pc = "idle" /\ call'["mon"].pc # "idle")
          => /\ call'["mon"].port \in mon.current_ports \ mon.previous_ports
             /\ call'["mon"].port \in mon.new_ports
             /\ mon'.new_ports = mon.new_ports \ {call'["mon"].port}
       /\ (mon.pc = "new" /\ mon'.pc # "new")
          => mon'.pc = "removed" /\ mon.new_ports = {}
       /\ (mon.pc = "removed" /\ mon'.removed_ports # mon.removed_ports)
          => \E p \in mon.previous_ports \ mon.current_ports :
                /\ mon'.removed_ports = mon.removed_ports \ {p}
                /\ p \in mon.removed_ports
                /\ active_ports' = DictPop(active_ports, p)
       /\ MonitorMoves
          => \A p \in Ports :
                DictGet(active_ports', p) # DictGet(active_ports, p)
                => \/ /\ call["mon"].pc # "idle"
                      /\ p = call["mon"].port
                      /\ p \in mon.current_ports \ mon.previous_ports
                   \/ /\ mon.pc = "removed"
                      /\ p \in mon.previous_ports \ mon.current_ports
       /\ (mon.pc = "removed" /\ mon'.pc # "removed")
          => /\ mon.removed_ports = {}
             /\ mon'.previous_ports = mon.current_ports]_vars

\* Witness of C17: in a cycle that found portA new and portB known, the
\* monitor's call for portA has started a listener and is about to register
\* it, the entry of portB being live.
C17_Witness ==
    /\ call["mon"].pc = "put"
    /\ call["mon"].port = "portA"
    /\ "portA" \in mon.current_ports \ mon.previous_ports
    /\ "portB" \in mon.current_ports \cap mon.previous_ports
    /\ LiveEntry("portB")

\* Thread objects the dict names.
Tracked(ap) == {ap[p] : p \in DOMAIN ap}

\* C18: the removal of a disappeared device's entry (line 87) changes the
\* liveness of no listener: the listeners of the device that were live stay
\* live, without an entry; and a live listener the dict does not name ends
\* only by a step of its own (its read or its open failing), never by a
\* step of the monitor or of the scan.
C18_RemovalLeavesListener ==
    [][/\ (mon.pc = "removed" /\ mon'.removed_ports # mon.removed_ports)
          => /\ \A t \in Tids :
                   IsAlive(t) <=> threads'[t].st
                                      \in {"started", "reading", "stale"}
             /\ \A p \in mon.removed_ports \ mon'.removed_ports :
                   /\ p \notin DOMAIN active_ports'
                   /\ LiveListenersAfter(p) = LiveListeners(p)
       /\ \A t \in Tids :
             (/\ IsAlive(t)
              /\ t \notin Tracked(active_ports)
              /\ threads'[t].st \notin {"started", "reading", "stale"})
             => /\ mon' = mon /\ scan' = scan /\ call' = call
                /\ active_ports' = active_ports]_vars

\* Witness of C18: the monitor has removed the entry of the unplugged portA
\* in this cycle, and the listener of portA is still alive, blocked in its
\* read, with no entry.
C18_Witness ==
    /\ mon.pc = "removed"
    /\ "portA" \in mon.previous_ports \ mon.current_ports
    /\ "portA" \notin mon.removed_ports
    /\ "portA" \notin DOMAIN active_ports
    /\ \A c \in Callers : call[c].pc = "idle"
    /\ \E t \in Tids : threads[t].port = "portA" /\ threads[t].st = "stale"

\* C19: a call of start_listening_to_port that finds a dead entry (the
\* thread it names has exited) does not return at line 64; it removes the
\* entry, starts a new listener for the id, and returns with the dict
\* mapping the id to that new listener.
C19_DeadEntryReplaced ==
    [][\A c \in Callers :
          /\ (/\ call[c].pc = "alive"
              /\ call[c].thread # <<>>
              /\ ~IsAlive(call[c].thread[1])
              /\ call'[c] # call[c])
             => /\ call'[c].pc = "pop"
                /\ call'[c].port = call[c].port
          /\ (call[c].pc = "pop" /\ call'[c] # call[c])
             => /\ call'[c].pc = "put"
                /\ call'[c].port = call[c].port
                /\ call'[c].thread # <<>>
                /\ call[c].port \notin DOMAIN active_ports'
                /\ LET t == call'[c].thread[1]
                   IN /\ ~IsAlive(t)
                      /\ threads'[t].port = call[c].port
                      /\ threads'[t].st = "started"
                      /\ t \notin Tracked(active_ports')
          /\ (call[c].pc = "put" /\ call'[c] # call[c])
             => /\ call'[c].pc = "idle"
                /\ DictGet(active_ports', call[c].port) = call[c].thread
                /\ threads'[call[c].thread[1]].port = call[c].port
                /\ \A p \in Ports \ {call[c].port} :
                      DictGet(active_ports', p) = DictGet(active_ports, p)
      ]_vars

\* Witness of C19: a call has found the entry of its port dead and has gone
\* past the check of line 63; the dead entry is about to be replaced.
C19_Witness ==
    \E c \in Callers :
        /\ call[c].pc = "pop"
        /\ DeadEntry(call[c].port)

\* self.running has been cleared after start().
ShutdownSignalled == scan.pc # "init" /\ ~running

\* C15: once self.running is cleared, the monitor leaves its loop and every
\* listener thread exits, the threads being scheduled and the devices
\* sending nothing they do not choose to send.
C15_ShutdownEndsAll ==
    ShutdownSignalled ~> (mon.pc = "done" /\ \A t \in Tids : ~IsAlive(t))

----------------------------------------------------------------------------
\* Properties of load_next_snapshot and load_previous_snapshot.

\* The position, counted from 1, at which name is found in the names of the
\* inventory: the first one that holds it.
Position(sl, name) ==
    CHOOSE i \in 1..Len(sl) :
        sl[i][2] = name /\ \A j \in 1..(i - 1) : sl[j][2] # name

\* The inventory {0: "A", 1: "B", 2: "C"}.
InventoryABC == <<(<<(<<"0">>), "A">>), (<<(<<"1">>), "B">>), (<<(<<"2">>), "C">>)>>

\* C12: with the current name found at position p of the names of a
\* non-empty inventory of count items, load_next_snapshot loads the index
\* that is the key at position (p + 1) mod count and load_previous_snapshot
\* the key at position (p - 1) mod count, wrapping at both ends; with
\* {0: "A", 1: "B", 2: "C"}, next from "C" loads 0 and previous from "A"
\* loads 2.
C12_NeighbourWraps ==
    (loaded # <<>>
        /\ \E i \in 1..Len(modapi.snapshot_list) :
              modapi.snapshot_list[i][2] = loaded[1].current_name)
    => LET sl == modapi.snapshot_list
           count == Len(sl)
           p == Position(sl, loaded[1].current_name)
           q == IF loaded[1].op = "next"
                THEN (IF p = count THEN 1 ELSE p + 1)
                ELSE (IF p = 1 THEN count ELSE p - 1)
       IN /\ ~loaded[1].raised
          /\ loaded[1].calls
                 = <<[op |-> "load_snapshot",
                      args |-> <<DigitsValue(sl[q][1])>>]>>
          /\ (sl = InventoryABC /\ loaded[1].op = "next"
                 /\ loaded[1].current_name = "C")
             => loaded[1].calls[1].args = <<0>>
          /\ (sl = InventoryABC /\ loaded[1].op = "previous"
                 /\ loaded[1].current_name = "A")
             => loaded[1].calls[1].args = <<2>>

\* Witness of C12: with {0: "A", 1: "B", 2: "C"} and "C" current,
\* load_next_snapshot has wrapped and loaded index 0.
C12_Witness ==
    /\ modapi.snapshot_list = InventoryABC
    /\ loaded # <<>>
    /\ loaded[1].op = "next"
    /\ loaded[1].current_name = "C"
    /\ loaded[1].calls = <<[op |-> "load_snapshot", args |-> <<0>>]>>

\* C13: with a current name that is not among the names of the inventory
\* (the inventory may be empty), load_next_snapshot and
\* load_previous_snapshot call nothing, raise nothing and leave the current
\* snapshot as it is.
C13_UnknownNameIsNoOp ==
    (loaded # <<>>
        /\ \A i \in 1..Len(modapi.snapshot_list) :
              modapi.snapshot_list[i][2] # loaded[1].current_name)
    => /\ loaded[1].calls = <<>>
       /\ ~loaded[1].raised
       /\ modapi.current_name = loaded[1].current_name

\* Witness of C13: load_previous_snapshot has run on an empty inventory.
C13_Witness ==
    /\ loaded # <<>>
    /\ loaded[1].op = "previous"
    /\ modapi.snapshot_list = <<>>
    /\ loaded[1].calls = <<>>

----------------------------------------------------------------------------
\* Properties of the path from a device to the dispatch.

\* C14: the collaborator calls for the messages of a device are made in
\* the order the device sent the messages: no call for a message follows a
\* call for a message sent after it.
C14_DispatchInArrivalOrder ==
    \A i, j \in 1..Len(dispatched) :
        i < j => dispatched[i] <= dispatched[j]

\* C20: a message a device sent causes at most one collaborator call: no
\* message number is in the log of the calls twice.
C20_AtMostOneCallPerMessage ==
    \A i, j \in 1..Len(dispatched) :
        dispatched[i] = dispatched[j] => i = j

====
